---- MODULE Spec2Model ----
(***************************************************************************)
(* Model of the knuffel derive front end:                                  *)
(*   - Struct::new / Struct::all_fields   (derive/src/definition.rs)       *)
(*   - Enum::new / emit_enum and the raw_decode / type_check it generates  *)
(*     (derive/src/scalar.rs)                                              *)
(* Struct::new is a loop over the struct's fields; one action models one   *)
(* iteration of that loop (attribute processing included), one models the  *)
(* final Ok(Struct {..}).                                                  *)
(***************************************************************************)
EXTENDS Integers, Sequences, FiniteSets, TLC

\* Longest field list handed to Struct::new.
MaxFields == 4

\* Most variants of an enum handed to Enum::new.
MaxVariants == 5

VARIABLES
    fields,        \* Struct::new: the fields iterator, as the list it yields
    pos,           \* Struct::new: index of the field the for loop takes next
    arguments,     \* Struct::new local arguments
    var_args,      \* Struct::new local var_args (Option: <<>> or <<x>>)
    properties,    \* Struct::new local properties
    var_props,     \* Struct::new local var_props (Option)
    children,      \* Struct::new local children (Option)
    extra_fields,  \* Struct::new local extra_fields
    ret,           \* what Struct::new returned, once it has
    src_variants,  \* Enum::new: the src_variants iterator, as the list it yields
    vpos,          \* Enum::new: index of the variant the for loop takes next
    variants,      \* Enum::new local variants
    eret,          \* what Enum::new returned, once it has
    value_err,     \* emit_enum local value_err
    t_name_err,    \* emit_enum local t_name_err
    match_branches,\* emit_enum: the (name, ident) arms of the generated match
    phase,         \* how far the enum has come: new, built, failed, emitted,
                   \* checked, decoded
    value,         \* the document value handed to the generated decoder
    checked,       \* what the generated type_check returned for it
    decoded        \* what the generated raw_decode returned for it

svars == <<fields, pos, arguments, var_args, properties, var_props, children,
           extra_fields, ret>>

evars == <<src_variants, vpos, variants, eret, value_err, t_name_err,
           match_branches, phase, value, checked, decoded>>

vars == <<svars, evars>>

----------------------------------------------------------------------------
(* definition.rs: attributes and field modes *)

\* enum FieldMode
FieldMode == {"Argument", "Property", "Arguments", "Properties", "Children"}

\* FieldAttrs::new(): mode: None
NoMode == "None"

\* An attribute of a field: its path and, for a knuffel attribute, the
\* comma separated keywords between its parentheses.
Knuffel(kws) == [path |-> "knuffel", args |-> kws]
DocAttr == [path |-> "doc", args |-> <<>>]

\* Attr::parse_field: one keyword to one Attr::FieldMode, or the lookahead error
parse_field(kw) ==
    IF kw = "argument" THEN [ok |-> TRUE, mode |-> "Argument"]
    ELSE IF kw = "arguments" THEN [ok |-> TRUE, mode |-> "Arguments"]
    ELSE IF kw = "property" THEN [ok |-> TRUE, mode |-> "Property"]
    ELSE IF kw = "properties" THEN [ok |-> TRUE, mode |-> "Properties"]
    ELSE IF kw = "children" THEN [ok |-> TRUE, mode |-> "Children"]
    ELSE [ok |-> FALSE, mode |-> NoMode]

\* parse_field_attrs: every keyword of the chunk must parse
parse_field_attrs(kws) ==
    IF \A k \in 1..Len(kws) : parse_field(kws[k]).ok
    THEN [ok |-> TRUE, chunk |-> [k \in 1..Len(kws) |-> parse_field(kws[k]).mode]]
    ELSE [ok |-> FALSE, chunk |-> <<>>]

\* FieldAttrs::update: each FieldMode of the chunk overwrites self.mode
update(mode, chunk) ==
    IF chunk = <<>> THEN mode ELSE chunk[Len(chunk)]

\* The inner for attr in fld.attrs loop of Struct::new, from attribute k on:
\* outer knuffel attributes are parsed (? returns on the first failure) and
\* folded into attrs.mode, all other attributes are skipped.
RECURSIVE ScanAttrs(_, _, _)
ScanAttrs(attrs, k, mode) ==
    IF k > Len(attrs) THEN [ok |-> TRUE, mode |-> mode]
    ELSE IF attrs[k].path = "knuffel"
         THEN LET chunk == parse_field_attrs(attrs[k].args)
              IN  IF chunk.ok
                  THEN ScanAttrs(attrs, k + 1, update(mode, chunk.chunk))
                  ELSE [ok |-> FALSE, mode |-> NoMode]
         ELSE ScanAttrs(attrs, k + 1, mode)

FieldAttrsOf(fld) == ScanAttrs(fld.attrs, 1, NoMode)

\* is_option(&fld.ty): the field's type is a bare Option<..> path
is_option(fld) == fld.ty = "Option"

\* The field declarations the model draws a struct's fields from.
FieldDecls ==
    { [attrs |-> <<>>, ty |-> "u32"],
      [attrs |-> <<DocAttr, Knuffel(<<"argument">>)>>, ty |-> "u32"],
      [attrs |-> <<Knuffel(<<"argument">>)>>, ty |-> "Option"],
      [attrs |-> <<Knuffel(<<"arguments">>)>>, ty |-> "Vec"],
      [attrs |-> <<Knuffel(<<"property">>)>>, ty |-> "Option"],
      [attrs |-> <<Knuffel(<<"properties">>)>>, ty |-> "Map"],
      [attrs |-> <<Knuffel(<<"children">>)>>, ty |-> "Vec"],
      [attrs |-> <<Knuffel(<<"property">>),
                   Knuffel(<<"properties", "children">>)>>, ty |-> "Vec"],
      [attrs |-> <<Knuffel(<<"unwrap">>)>>, ty |-> "u32"] }

FieldLists == UNION { [1..n -> FieldDecls] : n \in 0..MaxFields }

----------------------------------------------------------------------------
(* definition.rs: diagnostics and the plan *)

\* The span of field i's identifier (fld.ident), and of its knuffel attribute
IdentSpan(i) == [kind |-> "ident", field |-> i]
AttrSpan(i) == [kind |-> "attr", field |-> i]

\* Messages are the source's with the backquotes around the role names left out.
\* err_pair: an error at s1 with message t1, combined with one at s2 with t2
err_pair(s1, s2, t1, t2) ==
    <<[span |-> s1, message |-> t1], [span |-> s2, message |-> t2]>>

\* The error parse_args_with returns for a keyword parse_field rejects
ParseError(i) == <<[span |-> AttrSpan(i), message |-> "unexpected keyword"]>>

NoPlan == [arguments |-> <<>>, var_args |-> <<>>, properties |-> <<>>,
           var_props |-> <<>>, children_only |-> FALSE, children |-> <<>>,
           extra_fields |-> <<>>]

Running == [status |-> "running", plan |-> NoPlan, err |-> <<>>]
Err(e) == [status |-> "err", plan |-> NoPlan, err |-> e]
Ok(p) == [status |-> "ok", plan |-> p, err |-> <<>>]

\* children_only computed without looking at var_props
ChildrenOnly_NoVarProps(args, vargs, props, vprops) ==
    args = <<>> /\ props = <<>> /\ vargs = <<>>

\* children_only of the returned Struct
ChildrenOnly(args, vargs, props, vprops) ==
    args = <<>> /\ props = <<>> /\ vargs = <<>> /\ vprops = <<>>

\* all_fields that leaves the property catch-all out
all_fields_NoVarProps(s) ==
    [k \in 1..Len(s.arguments) |-> s.arguments[k].field]
    \o [k \in 1..Len(s.var_args) |-> s.var_args[k].field]
    \o [k \in 1..Len(s.properties) |-> s.properties[k].field]
    \o [k \in 1..Len(s.children) |-> s.children[k].field]
    \o [k \in 1..Len(s.extra_fields) |-> s.extra_fields[k].ident]

\* Struct::all_fields
all_fields(s) ==
    [k \in 1..Len(s.arguments) |-> s.arguments[k].field]
    \o [k \in 1..Len(s.var_args) |-> s.var_args[k].field]
    \o [k \in 1..Len(s.properties) |-> s.properties[k].field]
    \o [k \in 1..Len(s.var_props) |-> s.var_props[k].field]
    \o [k \in 1..Len(s.children) |-> s.children[k].field]
    \o [k \in 1..Len(s.extra_fields) |-> s.extra_fields[k].ident]

----------------------------------------------------------------------------
(* Struct::new *)

StructInit ==
    /\ fields \in FieldLists
    /\ pos = 1
    /\ arguments = <<>>
    /\ var_args = <<>>
    /\ properties = <<>>
    /\ var_props = <<>>
    /\ children = <<>>
    /\ extra_fields = <<>>
    /\ ret = Running

\* The loop has a next field and its attributes gave attrs.mode = m
Taking(m) ==
    /\ ret.status = "running"
    /\ pos <= Len(fields)
    /\ FieldAttrsOf(fields[pos]).ok
    /\ FieldAttrsOf(fields[pos]).mode = m

\* ? on parse_args_with: the function returns the parse error
ScanAttrError ==
    /\ ret.status = "running"
    /\ pos <= Len(fields)
    /\ ~FieldAttrsOf(fields[pos]).ok
    /\ ret' = Err(ParseError(pos))
    /\ UNCHANGED <<fields, pos, arguments, var_args, properties, var_props,
                   children, extra_fields>>
    /\ UNCHANGED evars

\* Some(FieldMode::Argument) without the test of var_args
ScanArgument_NoCheck ==
    /\ Taking("Argument")
    /\ arguments' = Append(arguments,
                        [field |-> pos, option |-> is_option(fields[pos])])
    /\ pos' = pos + 1
    /\ UNCHANGED <<fields, var_args, properties, var_props, children,
                   extra_fields, ret>>
    /\ UNCHANGED evars

\* Some(FieldMode::Argument)
ScanArgument ==
    /\ Taking("Argument")
    /\ IF var_args # <<>>
       THEN /\ ret' = Err(err_pair(IdentSpan(pos), IdentSpan(var_args[1].field),
                        "extra argument after capture all arguments",
                        "capture all arguments is defined here"))
            /\ UNCHANGED <<pos, arguments>>
       ELSE /\ arguments' = Append(arguments,
                        [field |-> pos, option |-> is_option(fields[pos])])
            /\ pos' = pos + 1
            /\ UNCHANGED ret
    /\ UNCHANGED <<fields, var_args, properties, var_props, children,
                   extra_fields>>
    /\ UNCHANGED evars

\* Some(FieldMode::Arguments) that overwrites an occupied slot
ScanArguments_Overwrite ==
    /\ Taking("Arguments")
    /\ var_args' = <<[field |-> pos]>>
    /\ pos' = pos + 1
    /\ UNCHANGED <<fields, arguments, properties, var_props, children,
                   extra_fields, ret>>
    /\ UNCHANGED evars

\* Some(FieldMode::Arguments)
ScanArguments ==
    /\ Taking("Arguments")
    /\ IF var_args # <<>>
       THEN /\ ret' = Err(err_pair(IdentSpan(pos), IdentSpan(var_args[1].field),
                        "only single arguments allowed",
                        "previous arguments is defined here"))
            /\ UNCHANGED <<pos, var_args>>
       ELSE /\ var_args' = <<[field |-> pos]>>
            /\ pos' = pos + 1
            /\ UNCHANGED ret
    /\ UNCHANGED <<fields, arguments, properties, var_props, children,
                   extra_fields>>
    /\ UNCHANGED evars

\* Some(FieldMode::Property) that tests var_args in place of var_props
ScanProperty_WrongSlot ==
    /\ Taking("Property")
    /\ IF var_args # <<>>
       THEN /\ ret' = Err(err_pair(IdentSpan(pos), IdentSpan(var_args[1].field),
                        "extra property after capture all properties",
                        "capture all properties is defined here"))
            /\ UNCHANGED <<pos, properties>>
       ELSE /\ properties' = Append(properties,
                        [field |-> pos, option |-> is_option(fields[pos])])
            /\ pos' = pos + 1
            /\ UNCHANGED ret
    /\ UNCHANGED <<fields, arguments, var_args, var_props, children,
                   extra_fields>>
    /\ UNCHANGED evars

\* Some(FieldMode::Property)
ScanProperty ==
    /\ Taking("Property")
    /\ IF var_props # <<>>
       THEN /\ ret' = Err(err_pair(IdentSpan(pos), IdentSpan(var_props[1].field),
                        "extra property after capture all properties",
                        "capture all properties is defined here"))
            /\ UNCHANGED <<pos, properties>>
       ELSE /\ properties' = Append(properties,
                        [field |-> pos, option |-> is_option(fields[pos])])
            /\ pos' = pos + 1
            /\ UNCHANGED ret
    /\ UNCHANGED <<fields, arguments, var_args, var_props, children,
                   extra_fields>>
    /\ UNCHANGED evars

\* Some(FieldMode::Properties)
ScanProperties ==
    /\ Taking("Properties")
    /\ IF var_props # <<>>
       THEN /\ ret' = Err(err_pair(IdentSpan(pos), IdentSpan(var_props[1].field),
                        "only single properties is allowed",
                        "previous properties is defined here"))
            /\ UNCHANGED <<pos, var_props>>
       ELSE /\ var_props' = <<[field |-> pos]>>
            /\ pos' = pos + 1
            /\ UNCHANGED ret
    /\ UNCHANGED <<fields, arguments, var_args, properties, children,
                   extra_fields>>
    /\ UNCHANGED evars

\* Some(FieldMode::Children)
ScanChildren ==
    /\ Taking("Children")
    /\ IF children # <<>>
       THEN /\ ret' = Err(err_pair(IdentSpan(pos), IdentSpan(children[1].field),
                        "only single catch all children is allowed",
                        "previous children is defined here"))
            /\ UNCHANGED <<pos, children>>
       ELSE /\ children' = <<[field |-> pos]>>
            /\ pos' = pos + 1
            /\ UNCHANGED ret
    /\ UNCHANGED <<fields, arguments, var_args, properties, var_props,
                   extra_fields>>
    /\ UNCHANGED evars

\* None
ScanExtra ==
    /\ Taking(NoMode)
    /\ extra_fields' = Append(extra_fields, [ident |-> pos, kind |-> "Default"])
    /\ pos' = pos + 1
    /\ UNCHANGED <<fields, arguments, var_args, properties, var_props,
                   children, ret>>
    /\ UNCHANGED evars

\* The loop is over: Ok(Struct { .. })
StructReturn ==
    /\ ret.status = "running"
    /\ pos > Len(fields)
    /\ ret' = Ok([arguments |-> arguments, var_args |-> var_args,
                  properties |-> properties, var_props |-> var_props,
                  children_only |->
                      ChildrenOnly(arguments, var_args, properties, var_props),
                  children |-> children, extra_fields |-> extra_fields])
    /\ UNCHANGED <<fields, pos, arguments, var_args, properties, var_props,
                   children, extra_fields>>
    /\ UNCHANGED evars


----------------------------------------------------------------------------
(* scalar.rs: text.  A string is the sequence of its characters; a character
   outside ASCII is written by its code point, and so is the backquote,
   U+0060. *)

UpperChars == {"A", "B", "T", "N", "U+00C9"}
LowerChars == {"a", "b", "c", "t", "n", "z", "U+00E9"}

is_uppercase(c) == c \in UpperChars
is_lowercase(c) == c \in LowerChars

\* char::to_lowercase
to_lowercase(c) ==
    IF c = "A" THEN "a"
    ELSE IF c = "B" THEN "b"
    ELSE IF c = "T" THEN "t"
    ELSE IF c = "N" THEN "n"
    ELSE IF c = "U+00C9" THEN "U+00E9"
    ELSE c

Lowercased(w) == [k \in 1..Len(w) |-> to_lowercase(w[k])]

\* One word leaves the case conversion: a hyphen before every word but the
\* first, then the word in lower case.
EmitWord(acc, first, w) ==
    (IF first THEN acc ELSE acc \o <<"-">>) \o Lowercased(w)

\* heck's word splitting over an identifier w of letters, from character i:
\* init is where the current word starts, mode the case of the characters seen
\* in it.  A word ends between a lower case and an upper case letter, and
\* before the last upper case letter of a run that a lower case letter follows.
RECURSIVE KebabFrom(_, _, _, _, _, _)
KebabFrom(w, i, init, mode, first, acc) ==
    IF i > Len(w) THEN acc
    ELSE IF i = Len(w) THEN EmitWord(acc, first, SubSeq(w, init, Len(w)))
    ELSE LET c == w[i]
             next == w[i + 1]
             next_mode == IF is_lowercase(c) THEN "Lowercase"
                          ELSE IF is_uppercase(c) THEN "Uppercase"
                          ELSE mode
         IN  IF next_mode = "Lowercase" /\ is_uppercase(next)
             THEN KebabFrom(w, i + 1, i + 1, "Boundary", FALSE,
                            EmitWord(acc, first, SubSeq(w, init, i)))
             ELSE IF mode = "Uppercase" /\ is_uppercase(c) /\ is_lowercase(next)
             THEN KebabFrom(w, i + 1, i, "Boundary", FALSE,
                            EmitWord(acc, first, SubSeq(w, init, i - 1)))
             ELSE KebabFrom(w, i + 1, init, next_mode, first, acc)

\* heck::KebabCase::to_kebab_case(&var.ident.to_string()[..])
to_kebab_case(w) == KebabFrom(w, 1, 1, "Boundary", TRUE, <<>>)

\* char::escape_default: printable ASCII stands for itself, but for the
\* backslash and the quotes; any other character becomes \u{..}
EscapeChar(c) ==
    IF c = "\\" THEN <<"\\", "\\">>
    ELSE IF c = "'" THEN <<"\\", "'">>
    ELSE IF c = "U+00E9" THEN <<"\\", "u", "{", "e", "9", "}">>
    ELSE IF c = "U+00C9" THEN <<"\\", "u", "{", "c", "9", "}">>
    ELSE <<c>>

\* str::escape_default
RECURSIVE escape_default(_)
escape_default(w) ==
    IF w = <<>> THEN <<>>
    ELSE EscapeChar(Head(w)) \o escape_default(Tail(w))

Digit(d) == <<"0", "1", "2", "3", "4", "5", "6", "7", "8", "9">>[d + 1]

\* {} of a usize: its decimal digits
RECURSIVE Decimal(_)
Decimal(n) == IF n < 10 THEN <<Digit(n)>> ELSE Decimal(n \div 10) \o <<Digit(n % 10)>>

\* [..].join(sep)
RECURSIVE Join(_, _)
Join(parts, sep) ==
    IF parts = <<>> THEN <<>>
    ELSE IF Len(parts) = 1 THEN parts[1]
    ELSE parts[1] \o sep \o Join(Tail(parts), sep)

\* The literal pieces of emit_enum's format strings
TxtExpectedOneOf == <<"e", "x", "p", "e", "c", "t", "e", "d", " ", "o", "n", "e", " ", "o", "f", " ">>
TxtExpected == <<"e", "x", "p", "e", "c", "t", "e", "d", " ", "U+0060">>
TxtOrOneOf == <<"U+0060", ",", " ", "o", "r", " ", "o", "n", "e", " ", "o", "f", " ">>
TxtOthers == <<" ", "o", "t", "h", "e", "r", "s">>
TxtCommaSpace == <<",", " ">>
TxtBackquote == <<"U+0060">>
TxtUnexpectedTypeName == <<"u", "n", "e", "x", "p", "e", "c", "t", "e", "d", " ", "t", "y", "p", "e", " ", "n", "a", "m", "e", " ", "f", "o", "r", " ">>
TxtExpectedString == <<"e", "x", "p", "e", "c", "t", "e", "d", " ", "s", "t", "r", "i", "n", "g", " ", "v", "a", "l", "u", "e">>

----------------------------------------------------------------------------
(* scalar.rs: Enum::new *)

\* The variants the model draws an enum's variants from: an identifier and the
\* shape of syn::Fields
VariantDecls ==
    { [ident |-> <<"A", "b">>, fields |-> "Unit"],
      [ident |-> <<"A", "B">>, fields |-> "Unit"],
      [ident |-> <<"A", "B", "c", "U+00C9">>, fields |-> "Unit"],
      [ident |-> <<"T">>, fields |-> "Unnamed"],
      [ident |-> <<"N">>, fields |-> "Named"] }

VariantLists == UNION { [1..n -> VariantDecls] : n \in 0..MaxVariants }

\* The enum's own identifier
EnumIdent == <<"T", "a", "b">>

\* var.span()
VariantSpan(k) == [kind |-> "variant", variant |-> k]

NoEnum == [ident |-> <<>>, variants |-> <<>>]

EnumRunning == [status |-> "running", enum |-> NoEnum, err |-> <<>>]
EnumErr(e) == [status |-> "err", enum |-> NoEnum, err |-> e]
EnumOk(e) == [status |-> "ok", enum |-> e, err |-> <<>>]

NoValue == [span |-> [kind |-> "none"], literal |-> [kind |-> "Null", s |-> <<>>],
            type_name |-> <<>>]
NoResult == [status |-> "none", variant |-> <<>>, span |-> [kind |-> "none"],
             message |-> <<>>]

EnumInit ==
    /\ src_variants \in VariantLists
    /\ vpos = 1
    /\ variants = <<>>
    /\ eret = EnumRunning
    /\ value_err = <<>>
    /\ t_name_err = <<>>
    /\ match_branches = <<>>
    /\ phase = "new"
    /\ value = NoValue
    /\ checked = NoResult
    /\ decoded = NoResult

\* syn::Fields::Unit => the variant is pushed with its kebab-case name
NewUnit ==
    /\ phase = "new"
    /\ vpos <= Len(src_variants)
    /\ src_variants[vpos].fields = "Unit"
    /\ variants' = Append(variants,
                       [ident |-> src_variants[vpos].ident,
                        name |-> to_kebab_case(src_variants[vpos].ident)])
    /\ vpos' = vpos + 1
    /\ UNCHANGED <<src_variants, eret, value_err, t_name_err, match_branches,
                   phase, value, checked, decoded>>
    /\ UNCHANGED svars

\* _ => the variant with fields is passed over
NewReject_Skip ==
    /\ phase = "new"
    /\ vpos <= Len(src_variants)
    /\ src_variants[vpos].fields # "Unit"
    /\ vpos' = vpos + 1
    /\ UNCHANGED <<src_variants, variants, eret, value_err, t_name_err,
                   match_branches, phase, value, checked, decoded>>
    /\ UNCHANGED svars

\* _ => return Err(..) at the variant's span
NewReject ==
    /\ phase = "new"
    /\ vpos <= Len(src_variants)
    /\ src_variants[vpos].fields # "Unit"
    /\ eret' = EnumErr(<<[span |-> VariantSpan(vpos),
                 message |-> "only unit variants are allowed for DecodeScalar"]>>)
    /\ phase' = "failed"
    /\ UNCHANGED <<src_variants, vpos, variants, value_err, t_name_err,
                   match_branches, value, checked, decoded>>
    /\ UNCHANGED svars

\* The loop is over: Ok(Enum { ident, variants })
NewReturn ==
    /\ phase = "new"
    /\ vpos > Len(src_variants)
    /\ eret' = EnumOk([ident |-> EnumIdent, variants |-> variants])
    /\ phase' = "built"
    /\ UNCHANGED <<src_variants, vpos, variants, value_err, t_name_err,
                   match_branches, value, checked, decoded>>
    /\ UNCHANGED svars

----------------------------------------------------------------------------
(* scalar.rs: emit_enum and the decoder it generates *)

\* format!("U+0060{}U+0060", v.name.escape_default())
Quoted(name) == TxtBackquote \o escape_default(name) \o TxtBackquote

\* The message for at most 3 variants: every name, quoted, joined by ", "
ListAll(vs) ==
    TxtExpectedOneOf
    \o Join([k \in 1..Len(vs) |-> Quoted(vs[k].name)], TxtCommaSpace)

\* The message for more variants, counting every variant but the first
ListTwo_CountAllButOne(vs) ==
    TxtExpected \o escape_default(vs[1].name)
    \o TxtBackquote \o TxtCommaSpace \o TxtBackquote
    \o escape_default(vs[2].name)
    \o TxtOrOneOf \o Decimal(Len(vs) - 1) \o TxtOthers

\* The message for more variants: the first two names and the count of the rest
ListTwo(vs) ==
    TxtExpected \o escape_default(vs[1].name)
    \o TxtBackquote \o TxtCommaSpace \o TxtBackquote
    \o escape_default(vs[2].name)
    \o TxtOrOneOf \o Decimal(Len(vs) - 2) \o TxtOthers

\* value_err with the test e.variants.len() < 3
ValueErr_Below3(vs) == IF Len(vs) < 3 THEN ListAll(vs) ELSE ListTwo(vs)

\* let value_err = if e.variants.len() <= 3 { .. } else { .. }
ValueErr(vs) == IF Len(vs) <= 3 THEN ListAll(vs) ELSE ListTwo(vs)

\* emit_enum(e) for the enum Enum::new returned
EmitEnum ==
    /\ phase = "built"
    /\ t_name_err' = TxtUnexpectedTypeName \o eret.enum.ident
    /\ value_err' = ValueErr(eret.enum.variants)
    /\ match_branches' = [k \in 1..Len(eret.enum.variants) |->
                              [name |-> eret.enum.variants[k].name,
                               ident |-> eret.enum.variants[k].ident]]
    /\ phase' = "emitted"
    /\ UNCHANGED <<src_variants, vpos, variants, eret, value, checked, decoded>>
    /\ UNCHANGED svars

\* val.span() and typ.span()
LiteralSpan == [kind |-> "literal"]
TypeNameSpan == [kind |-> "type_name"]

DecodeOk(id) == [status |-> "ok", variant |-> id, span |-> [kind |-> "none"],
                 message |-> <<>>]
DecodeErr(sp, msg) == [status |-> "err", variant |-> <<>>, span |-> sp,
                       message |-> msg]

\* The arms of match &s[..] that match s, in the order they were emitted
Matching(branches, s) == {k \in 1..Len(branches) : branches[k].name = s}

\* The match taking the last arm whose pattern equals s
MatchBranches_Last(branches, s) ==
    IF Matching(branches, s) = {}
    THEN DecodeErr(LiteralSpan, value_err)
    ELSE DecodeOk(branches[CHOOSE k \in Matching(branches, s) :
                      \A j \in Matching(branches, s) : k >= j].ident)

\* match &s[..] { #(#match_branches,)* _ => Err(..) }: the first arm whose
\* pattern equals s is taken
MatchBranches(branches, s) ==
    IF Matching(branches, s) = {}
    THEN DecodeErr(LiteralSpan, value_err)
    ELSE DecodeOk(branches[CHOOSE k \in Matching(branches, s) :
                      \A j \in Matching(branches, s) : k <= j].ident)

\* generated raw_decode(val)
raw_decode(val) ==
    IF val.literal.kind = "String"
    THEN MatchBranches(match_branches, val.literal.s)
    ELSE DecodeErr(LiteralSpan, TxtExpectedString)

\* type_check that accepts a type name
type_check_Lenient(type_name) == DecodeOk(<<>>)

\* generated type_check(type_name)
type_check(type_name) ==
    IF type_name # <<>>
    THEN DecodeErr(type_name[1].span, t_name_err)
    ELSE DecodeOk(<<>>)

\* The strings tried as document literals
Strings ==
    { <<"a", "b">>, <<"A", "b">>, <<"a", "-", "b", "c", "-", "U+00E9">>,
      <<"z">>, <<>> }

\* Spanned<ast::Literal> with an optional Spanned<ast::TypeName>
Values ==
    { [span |-> LiteralSpan, literal |-> l, type_name |-> t] :
        l \in {[kind |-> "String", s |-> s] : s \in Strings}
              \cup {[kind |-> k, s |-> <<>>] : k \in {"Null", "Bool", "Int", "Decimal"}},
        t \in {<<>>, <<[span |-> TypeNameSpan, name |-> <<"t">>]>>} }

\* A value of the document reaches the decoder: its type name is checked
TypeCheck ==
    /\ phase = "emitted"
    /\ \E v \in Values :
           /\ value' = v
           /\ checked' = type_check(v.type_name)
    /\ phase' = "checked"
    /\ UNCHANGED <<src_variants, vpos, variants, eret, value_err, t_name_err,
                   match_branches, decoded>>
    /\ UNCHANGED svars

\* and its literal is decoded
RawDecode ==
    /\ phase = "checked"
    /\ decoded' = raw_decode(value)
    /\ phase' = "decoded"
    /\ UNCHANGED <<src_variants, vpos, variants, eret, value_err, t_name_err,
                   match_branches, value, checked>>
    /\ UNCHANGED svars

----------------------------------------------------------------------------
(* Specifications *)

\* Struct::new on one field list
Next ==
    \/ ScanAttrError
    \/ ScanArgument
    \/ ScanArguments
    \/ ScanProperty
    \/ ScanProperties
    \/ ScanChildren
    \/ ScanExtra
    \/ StructReturn

\* The enum side before Enum::new is given anything
EnumIdle ==
    /\ src_variants = <<>>
    /\ vpos = 1
    /\ variants = <<>>
    /\ eret = EnumRunning
    /\ value_err = <<>>
    /\ t_name_err = <<>>
    /\ match_branches = <<>>
    /\ phase = "idle"
    /\ value = NoValue
    /\ checked = NoResult
    /\ decoded = NoResult

\* The struct side before Struct::new is given anything
StructIdle ==
    /\ fields = <<>>
    /\ pos = 1
    /\ arguments = <<>>
    /\ var_args = <<>>
    /\ properties = <<>>
    /\ var_props = <<>>
    /\ children = <<>>
    /\ extra_fields = <<>>
    /\ ret = [status |-> "idle", plan |-> NoPlan, err |-> <<>>]

Init == StructInit /\ EnumIdle

Spec == Init /\ [][Next]_vars

\* Enum::new on one variant list, emit_enum, then the generated decoder on one
\* value
ScalarNext ==
    \/ NewUnit
    \/ NewReject
    \/ NewReturn
    \/ EmitEnum
    \/ TypeCheck
    \/ RawDecode

ScalarInit == EnumInit /\ StructIdle

ScalarSpec == ScalarInit /\ [][ScalarNext]_vars

----------------------------------------------------------------------------
(* Vocabulary of the claims about Struct::new, stated on the input alone *)

Done == ret.status # "running"

\* The role the attributes of field i give it ("None": an extra field)
Role(i) == FieldAttrsOf(fields[i]).mode

\* Every field carries zero or one role of the closed vocabulary: each of its
\* knuffel attributes is made of role keywords.
RoleTagged == \A i \in 1..Len(fields) : FieldAttrsOf(fields[i]).ok

CatchAllRoles == {"Arguments", "Properties", "Children"}

\* The catch-all role of a role's category
CatchAllOf(m) ==
    IF m \in {"Argument", "Arguments"} THEN "Arguments"
    ELSE IF m \in {"Property", "Properties"} THEN "Properties"
    ELSE IF m = "Children" THEN "Children"
    ELSE "no catch-all"

WithRole(m) == {i \in 1..Len(fields) : Role(i) = m}

AtMostOne(m) == Cardinality(WithRole(m)) <= 1

Min(S) == CHOOSE x \in S : \A y \in S : x <= y

\* Field j is declared after a catch-all field of its own category
Conflicting(j) == \E i \in 1..(j - 1) : Role(i) = CatchAllOf(Role(j))

ConflictingFields == {j \in 1..Len(fields) : Conflicting(j)}

\* A plain argument / property declared after the catch-all of its category
PlainAfterCatchAll(j) == Role(j) \in {"Argument", "Property"} /\ Conflicting(j)

\* The diagnostic has exactly two locations: field j, then field i
NamesPair(e, j, i) ==
    /\ Len(e) = 2
    /\ e[1].span = IdentSpan(j)
    /\ e[2].span = IdentSpan(i)

\* all_fields of the plan holds each input field exactly once
EachFieldOnce(p) ==
    /\ Len(all_fields(p)) = Len(fields)
    /\ \A i \in 1..Len(fields) :
           Cardinality({k \in 1..Len(all_fields(p)) : all_fields(p)[k] = i}) = 1

----------------------------------------------------------------------------
(* C1 *)

\* C1 as stated: for any field sequence with at most one Arguments, at most
\* one Properties and at most one Children catch-all, Struct::new succeeds and
\* all_fields of the plan is exactly the input fields, each once.
C1_AsStated ==
    (Done /\ RoleTagged /\ \A m \in CatchAllRoles : AtMostOne(m))
        => (ret.status = "ok" /\ EachFieldOnce(ret.plan))

\* C1, amended: the same for the field sequences that moreover declare no
\* plain Argument after the Arguments catch-all and no plain Property after
\* the Properties catch-all.
C1_Partition ==
    (/\ Done
     /\ RoleTagged
     /\ \A m \in CatchAllRoles : AtMostOne(m)
     /\ \A j \in 1..Len(fields) : ~PlainAfterCatchAll(j))
        => (ret.status = "ok" /\ EachFieldOnce(ret.plan))

\* A plan returned for a full-length input that has fields of three
\* categories, a catch-all among them.
C1_Witness ==
    /\ ret.status = "ok"
    /\ Len(fields) = MaxFields
    /\ WithRole("Argument") # {}
    /\ WithRole("Arguments") # {}
    /\ WithRole("Children") # {}
    /\ WithRole(NoMode) # {}
    /\ EachFieldOnce(ret.plan)

----------------------------------------------------------------------------
(* C2 *)

\* The step taken when a catch-all field is scanned while a field of the same
\* role was scanned before it.
C2_Step ==
    \A m \in CatchAllRoles :
        (Taking(m) /\ \E i \in 1..(pos - 1) : Role(i) = m)
            => /\ ret'.status = "err"
               /\ ret'.plan = NoPlan
               /\ NamesPair(ret'.err, pos, Min(WithRole(m)))

\* No returned plan holds more than one catch-all field per category.
C2_OnePerCategory ==
    ret.status = "ok" =>
        /\ \A m \in CatchAllRoles : AtMostOne(m)
        /\ Len(ret.plan.var_args) <= 1
        /\ Len(ret.plan.var_props) <= 1
        /\ Len(ret.plan.children) <= 1

\* C2: a catch-all field scanned while the slot of its category is occupied
\* makes Struct::new fail with a diagnostic of exactly two locations, the
\* scanned field first and the field occupying the slot second; so no
\* returned plan holds more than one catch-all field per category.
C2_DuplicateCatchAll == [][C2_Step]_vars /\ []C2_OnePerCategory

\* Struct::new failed on a second Properties catch-all.
C2_Witness ==
    /\ ret.status = "err"
    /\ RoleTagged
    /\ Role(pos) = "Properties"
    /\ Len(ret.err) = 2
    /\ ret.err[1].message = "only single properties is allowed"
    /\ ret.err[2].span.field < pos

----------------------------------------------------------------------------
(* C3 *)

\* C3 as stated: a plain Argument (Property) declared after the Arguments
\* (Properties) catch-all makes Struct::new fail with two locations that are
\* such a plain field and the earlier catch-all of its category.
C3_AsStated ==
    (Done /\ RoleTagged /\ \E j \in 1..Len(fields) : PlainAfterCatchAll(j))
        => /\ ret.status = "err"
           /\ ret.plan = NoPlan
           /\ \E j \in 1..Len(fields) :
                  /\ PlainAfterCatchAll(j)
                  /\ NamesPair(ret.err, j, Min(WithRole(CatchAllOf(Role(j)))))

\* C3, amended: such a field makes Struct::new fail with a two-location
\* diagnostic and no plan; the locations are the plain field and the earlier
\* catch-all of its category when the plain field is the first field in
\* declaration order that follows a catch-all of its own category.
C3_PlainAfterCatchAll ==
    (Done /\ RoleTagged /\ \E j \in 1..Len(fields) : PlainAfterCatchAll(j))
        => /\ ret.status = "err"
           /\ ret.plan = NoPlan
           /\ Len(ret.err) = 2
           /\ PlainAfterCatchAll(Min(ConflictingFields))
                  => /\ NamesPair(ret.err, Min(ConflictingFields),
                          Min(WithRole(CatchAllOf(Role(Min(ConflictingFields))))))
                     /\ ret.err[1].message \in
                          {"extra argument after capture all arguments",
                           "extra property after capture all properties"}

\* Struct::new failed on a plain argument that is not adjacent to the
\* catch-all it follows.
C3_Witness ==
    /\ ret.status = "err"
    /\ RoleTagged
    /\ Role(pos) = "Argument"
    /\ PlainAfterCatchAll(pos)
    /\ ret.err[2].span.field < pos - 1
    /\ ret.err[1].span = IdentSpan(pos)

----------------------------------------------------------------------------
(* C4 *)

\* C4: in every returned plan children_only is true iff arguments and
\* properties are empty and var_args and var_props are absent, that is iff no
\* input field has an argument or property role; children and extra fields
\* have no part in it.
C4_ChildrenOnly ==
    ret.status = "ok" =>
        /\ ret.plan.children_only <=>
               (/\ ret.plan.arguments = <<>>
                /\ ret.plan.properties = <<>>
                /\ ret.plan.var_args = <<>>
                /\ ret.plan.var_props = <<>>)
        /\ ret.plan.children_only <=>
               (\A i \in 1..Len(fields) : Role(i) \in {"Children", NoMode})

\* A children_only plan that has a children catch-all and an extra field.
C4_Witness ==
    /\ ret.status = "ok"
    /\ ret.plan.children_only
    /\ ret.plan.children # <<>>
    /\ ret.plan.extra_fields # <<>>

----------------------------------------------------------------------------
(* C10 *)

\* C10: Struct::new fails iff some field follows a catch-all field of its own
\* category (Argument or Arguments after Arguments, Property or Properties
\* after Properties, Children after Children); the diagnostic names the first
\* such field in declaration order and the first catch-all of its category.
C10_FailsIffConflict ==
    (Done /\ RoleTagged)
        => /\ ret.status = "err" <=> ConflictingFields # {}
           /\ ret.status = "err"
                  => NamesPair(ret.err, Min(ConflictingFields),
                         Min(WithRole(CatchAllOf(Role(Min(ConflictingFields))))))
           /\ ret.status = "ok" => EachFieldOnce(ret.plan)

\* Struct::new accepted a catch-all declared after a plain field of its
\* category and a catch-all of another category, then failed on the last field.
C10_Witness ==
    /\ ret.status = "err"
    /\ RoleTagged
    /\ Len(fields) = MaxFields
    /\ Role(1) = "Argument"
    /\ Role(2) = "Arguments"
    /\ Role(3) = "Properties"
    /\ Min(ConflictingFields) = MaxFields

----------------------------------------------------------------------------
(* Vocabulary of the claims about Enum::new, emit_enum and the decoder,
   stated on the input alone *)

\* The tag derived for the k-th declared variant
Tag(k) == to_kebab_case(src_variants[k].ident)

\* A tag between backquotes, escaped
QuotedTag(k) == <<"U+0060">> \o escape_default(Tag(k)) \o <<"U+0060">>

\* The variants that declare fields
NonUnit == {k \in 1..Len(src_variants) : src_variants[k].fields # "Unit"}

\* Enum::new has returned
EnumDone == phase \in {"failed", "built", "emitted", "checked", "decoded"}

\* emit_enum has run
Emitted == phase \in {"emitted", "checked", "decoded"}

SaysExpected == <<"e", "x", "p", "e", "c", "t", "e", "d", " ">>
SaysExpectedOneOf == <<"e", "x", "p", "e", "c", "t", "e", "d", " ", "o", "n", "e", " ", "o", "f", " ">>
SaysComma == <<",", " ">>
SaysOr == <<",", " ", "o", "r", " ">>
SaysOrOneOf == <<",", " ", "o", "r", " ", "o", "n", "e", " ", "o", "f", " ">>
SaysOthers == <<" ", "o", "t", "h", "e", "r", "s">>

----------------------------------------------------------------------------
(* C5 *)

\* C5 as stated: with more than 3 variants the message reads
\* expected <tag0>, <tag1>, or N others, the tags quoted and escaped, N the
\* variant count less 2.
C5_AsStated ==
    (Emitted /\ Len(src_variants) > 3)
        => value_err = SaysExpected \o QuotedTag(1) \o SaysComma \o QuotedTag(2)
                       \o SaysOr \o Decimal(Len(src_variants) - 2) \o SaysOthers

\* C5, amended: with more than 3 variants the message reads
\* expected <tag0>, <tag1>, or one of N others, the tags quoted and escaped,
\* N the variant count less 2.
C5_Abbreviated ==
    (Emitted /\ Len(src_variants) > 3)
        => value_err = SaysExpected \o QuotedTag(1) \o SaysComma \o QuotedTag(2)
                       \o SaysOrOneOf \o Decimal(Len(src_variants) - 2)
                       \o SaysOthers

\* emit_enum ran on five variants whose first two tags differ, one of them
\* needing an escape.
C5_Witness ==
    /\ Emitted
    /\ Len(src_variants) = 5
    /\ Tag(1) # Tag(2)
    /\ escape_default(Tag(2)) # Tag(2)

----------------------------------------------------------------------------
(* C6 *)

\* C6: with at most 3 variants the message is "expected one of " and every
\* tag in declaration order, quoted and escaped, joined by ", "; with 4 or
\* more it is not.
C6_ListsAll ==
    Emitted =>
        (Len(src_variants) <= 3 <=>
            value_err = SaysExpectedOneOf
                \o Join([k \in 1..Len(src_variants) |-> QuotedTag(k)], SaysComma))

\* emit_enum ran on exactly three variants, one of them needing an escape.
C6_Witness ==
    /\ Emitted
    /\ Len(src_variants) = 3
    /\ \E k \in 1..3 : escape_default(Tag(k)) # Tag(k)
    /\ Tag(1) # Tag(3)

----------------------------------------------------------------------------
(* C7 *)

\* C7: Enum::new fails iff some variant declares fields; the failure is one
\* diagnostic at the first such variant and no Enum is returned, whatever
\* variants were accumulated; otherwise the Enum has one Variant per input
\* variant, in declaration order.
C7_UnitOnly ==
    EnumDone =>
        /\ eret.status = "err" <=> NonUnit # {}
        /\ eret.status = "err" =>
               /\ Len(eret.err) = 1
               /\ eret.err[1].span = VariantSpan(Min(NonUnit))
               /\ eret.err[1].message
                      = "only unit variants are allowed for DecodeScalar"
               /\ eret.enum = NoEnum
        /\ eret.status = "ok" =>
               /\ Len(eret.enum.variants) = Len(src_variants)
               /\ \A k \in 1..Len(src_variants) :
                      eret.enum.variants[k].ident = src_variants[k].ident

\* Enum::new failed on a variant with fields that follows unit variants and
\* precedes another variant with fields.
C7_Witness ==
    /\ phase = "failed"
    /\ variants # <<>>
    /\ Cardinality(NonUnit) >= 2
    /\ Min(NonUnit) = vpos
    /\ eret.enum = NoEnum

----------------------------------------------------------------------------
(* C8 *)

\* C8: the generated type_check rejects every value that carries a type name,
\* whatever its literal, with an error at the type name's span; it accepts a
\* value without one.
C8_TypeName ==
    phase \in {"checked", "decoded"} =>
        /\ value.type_name # <<>> =>
               /\ checked.status = "err"
               /\ checked.span = TypeNameSpan
               /\ checked.span # value.span
        /\ value.type_name = <<>> => checked.status = "ok"

\* A value with a type name whose string is a derived tag: raw_decode alone
\* decodes it, type_check rejected it.
C8_Witness ==
    /\ phase = "decoded"
    /\ value.type_name # <<>>
    /\ value.literal.kind = "String"
    /\ \E k \in 1..Len(src_variants) : Tag(k) = value.literal.s
    /\ decoded.status = "ok"
    /\ checked.status = "err"

----------------------------------------------------------------------------
(* C9 *)

\* The declared variants whose tag equals the string exactly
TagEquals(str) == {k \in 1..Len(src_variants) : Tag(k) = str}

\* C9: raw_decode fails with "expected string value" on a literal that is no
\* string; decodes a string equal to some tag to the first declared variant
\* with that tag; fails with the value-mismatch message at the value on any
\* other string.
C9_Dispatch ==
    phase = "decoded" =>
        /\ value.literal.kind # "String" =>
               decoded = DecodeErr(value.span, TxtExpectedString)
        /\ (value.literal.kind = "String" /\ TagEquals(value.literal.s) # {}) =>
               /\ decoded.status = "ok"
               /\ decoded.variant
                      = src_variants[Min(TagEquals(value.literal.s))].ident
        /\ (value.literal.kind = "String" /\ TagEquals(value.literal.s) = {}) =>
               decoded = DecodeErr(value.span, value_err)

\* A string decoded where two variants of different identifiers derive the
\* tag it equals.
C9_Witness ==
    /\ phase = "decoded"
    /\ decoded.status = "ok"
    /\ \E j, k \in TagEquals(value.literal.s) :
           src_variants[j].ident # src_variants[k].ident

====
